---- MODULE Spec2Model ----
(***************************************************************************)
(* The Ojin persona engine of src/src/pipecat/services/ojin/video.py:      *)
(* OjinPersonaService (frame processor), OjinPersonaFSM, the playback loop *)
(* and the interaction object, as the cooperative tasks of one asyncio     *)
(* event loop.                                                             *)
(*                                                                         *)
(* Tasks: the pipeline task (process_frame, one frame at a time), the      *)
(* receive task (_receive_messages), the audio-sender task                 *)
(* (_process_queued_audio), the playback task (OjinPersonaFSM._run) and    *)
(* the audio-output task (_push_audio_output).  A task runs atomically     *)
(* from one suspension to the next.  The suspensions modelled are the      *)
(* awaits on the remote client: client.connect(), client.start_interaction *)
(* and client.send_message of the audio sender and of _interrupt; the      *)
(* playback loop suspends once per iteration (asyncio.sleep).  push_frame  *)
(* hands a frame to the neighbouring processor without suspending.         *)
(*                                                                         *)
(* Time: playback_time is a float number of seconds in the code; here it   *)
(* is a whole number of ticks, TicksPerFrame ticks to one 1/25 s frame.    *)
(***************************************************************************)
EXTENDS Integers, Sequences, FiniteSets, TLC

\* ---------------------------------------------------------------- bounds
MaxRetries == 2          \* settings.client_connect_max_retries of the run
MaxFrames == 2           \* pipeline frames processed after the StartFrame
MaxMsgs == 3             \* server messages received
MaxMsgsPlaying == 3      \* server messages once initialization has completed
MaxMsgsPlayingLong == 5  \* the same, in the longer runs
MaxMsgsUtterance == 2    \* the same, in the runs of one utterance
MaxTimePlaying == 6      \* playback_time (ticks) the loop reaches after it
MaxCache == 4            \* idle cache sizes looked up
MaxLookupTime == 19      \* playback_time (ticks) of an idle lookup
MaxMsgsLong == 4         \* server messages received in a long session
MaxIdle == 2             \* InteractionResponses accepted into the idle cache
MaxSpeech == 2           \* speech frames queued at once
MaxTime == 3             \* playback_time (ticks) up to which the loop is run
MaxStep == 3             \* longest playback-loop wake-up delay (ticks)
IdleToSpeechTicks == 2   \* settings.idle_to_speech_seconds of the run (ticks)
TicksPerFrame == 2       \* resolution of playback_time: ticks per frame

\* ------------------------------------------------------ program constants
Fps == 25
push_bot_stopped_speaking_frames == TRUE
tts_audio_passthrough == FALSE


PersonaStates ==
    {"invalid", "initializing", "idle", "waiting_interaction_ready",
     "idle_to_speech", "speech"}
InteractionStates ==
    {"inactive", "starting", "waiting_ready", "active", "all_audio_processed"}
ErrorCodes ==
    {"NO_BACKEND_SERVER_AVAILABLE", "FRAME_SIZE_TOO_BIG", "INVALID_INTERACTION_ID",
     "FAILED_CREATE_MODEL", "INVALID_PERSONA_ID_CONFIGURATION"}
ConnectOutcomes == {"ok", "ConnectionError", "OtherError"}
\* message.interaction_id of an InteractionResponse: "id" is the id
\* client.start_interaction() returned, "other" is any other id
MessageIds == {"id", "other"}

VARIABLES
    \* OjinPersonaFSM
    state,                    \* _state
    num_idle,                 \* len(_playback_loop.frames)
    speech_frames,            \* _speech_frames: the pts of each queued frame
    transition_time,          \* _transition_time (ticks)
    playback_time,            \* _playback_loop.playback_time (ticks)
    current_frame_idx,        \* _current_frame_idx
    waiting_for_image_frames, \* _waiting_for_image_frames
    previous_speech_frame,    \* _previous_speech_frame: its pts, or NoFrame
    num_frames_missed,        \* _num_frames_missed
    playback_task,            \* _playback_task: "none", "run", "dead", "cancelled"
    \* OjinPersonaService
    interaction,              \* _interaction
    pending_interaction,      \* _pending_interaction
    audio_output_task,        \* _audio_output_task is not None
    client,                   \* _client: "new", "connected", "none"
    fsm,                      \* _fsm is not None
    \* the tasks
    ppc,                      \* pipeline task: where process_frame is suspended
    rpc,                      \* receive task
    spc,                      \* audio-sender task
    \* the environment and what was observed
    started,                  \* the StartFrame was received
    attempts,                 \* calls of client.connect()
    last_outcome,             \* outcome of the last client.connect() call
    conn_result,              \* what connect_with_retry returned
    nfrm, nmsg, ntts,         \* frames, messages, TTS chunks received so far
    msg_budget,               \* server messages the session receives at most
    time_budget,              \* playback_time (ticks) up to which the loop is run
    rx,                       \* the FSM state each TTS chunk was received in
    last_pts,                 \* pts of the last image the playback loop pushed
    last_img,                 \* and its kind: "none", "idle" or "speech"
    final_rx,                 \* a final InteractionResponse was received since
                              \* the FSM last entered IDLE_TO_SPEECH
    sent,                     \* the TTS chunks the audio sender took, in order
    init_down, init_up,       \* OjinPersonaInitializedFrames pushed so far
    ev                        \* the handler run that completed in the last step

vars ==
    <<state, num_idle, speech_frames, transition_time, playback_time,
      current_frame_idx, waiting_for_image_frames, previous_speech_frame,
      num_frames_missed, playback_task, interaction, pending_interaction,
      audio_output_task, client, fsm, ppc, rpc, spc, started, attempts,
      last_outcome, conn_result, nfrm, nmsg, ntts, msg_budget, time_budget,
      rx, last_pts, last_img, final_rx, sent, init_down, init_up, ev>>

\* transition_time = -1 (seconds), in ticks
NoTransition == 0 - (Fps * TicksPerFrame)
\* _previous_speech_frame is None, start_frame_idx is None
NoFrame == 0 - 1000

\* ------------------------------------------------------------ interaction
\* self._interaction is None
None ==
    [live |-> FALSE, interaction_id |-> "", state |-> "inactive",
     audio_input_queue |-> <<>>, unfinished |-> 0, audio_output_queue |-> 0,
     received_all_interaction_inputs |-> FALSE, frame_idx |-> 0,
     start_frame_idx |-> NoFrame, is_speech |-> FALSE,
     \* not a field of the class: an InteractionInput with is_last_input was
     \* sent for this interaction
     last_input_sent |-> FALSE]

\* OjinPersonaInteraction(persona_id=...): the dataclass defaults
NewInteraction == [None EXCEPT !.live = TRUE]

\* -------------------------------------------------------------- helpers
CeilDiv(a, b) == 0 - ((0 - a) \div b)
Count(e, s) == Cardinality({i \in 1..Len(s) : s[i] = e})

\* --------------------------------------------------- the engine as a record
\* The fields of the FSM and of the service, with the frames and messages
\* pushed (out) and the FSM states entered (tr) by the handler that is running,
\* and the pts of the image the playback loop pushes (pts).
M(o, t) ==
    [state |-> state, num_idle |-> num_idle, speech_frames |-> speech_frames,
     transition_time |-> transition_time, playback_time |-> playback_time,
     current_frame_idx |-> current_frame_idx,
     waiting_for_image_frames |-> waiting_for_image_frames,
     previous_speech_frame |-> previous_speech_frame,
     num_frames_missed |-> num_frames_missed,
     playback_task |-> playback_task, interaction |-> interaction,
     pending_interaction |-> pending_interaction,
     audio_output_task |-> audio_output_task, client |-> client, fsm |-> fsm,
     init_down |-> init_down, init_up |-> init_up,
     out |-> o, tr |-> t, raised |-> FALSE, pts |-> NoFrame]

Commit(m) ==
    /\ state' = m.state
    /\ num_idle' = m.num_idle
    /\ speech_frames' = m.speech_frames
    /\ transition_time' = m.transition_time
    /\ playback_time' = m.playback_time
    /\ current_frame_idx' = m.current_frame_idx
    /\ waiting_for_image_frames' = m.waiting_for_image_frames
    /\ previous_speech_frame' = m.previous_speech_frame
    /\ num_frames_missed' = m.num_frames_missed
    /\ playback_task' = m.playback_task
    /\ interaction' = m.interaction
    /\ pending_interaction' = m.pending_interaction
    /\ audio_output_task' = m.audio_output_task
    /\ client' = m.client
    /\ fsm' = m.fsm
    /\ init_down' = m.init_down
    /\ init_up' = m.init_up

\* push_frame / push_ojin_message: what leaves the engine
Emit(m, e) == [m EXCEPT !.out = Append(@, e)]
\* an exception leaves the handler
Raise(m) == [m EXCEPT !.raised = TRUE]

\* ------------------------------------------------------- PersonaPlaybackLoop
get_current_frame_idx(m) == m.playback_time \div TicksPerFrame

\* a seek that lands one frame early
seek_frame_early(m, frame_idx) ==
    [m EXCEPT !.playback_time = (frame_idx - 1) * TicksPerFrame]

\* PersonaPlaybackLoop.seek_frame: playback_time = frame_idx / fps
seek_frame(m, frame_idx) == [m EXCEPT !.playback_time = frame_idx * TicksPerFrame]

\* mirror_index raises ZeroDivisionError for size 1; for an empty list the
\* lookup frames[...] raises IndexError
MirrorRaises(size) == size <= 1

mirror_index(index, size) ==
    LET period == (size - 1) * 2
        normalized_idx == index % period
    IN  IF normalized_idx < size THEN normalized_idx
        ELSE period - normalized_idx - 1

\* ------------------------------------------------------------ OjinPersonaFSM
get_transition_frame_idx(m) == CeilDiv(m.transition_time, TicksPerFrame)

_start_playback(m) ==
    IF m.playback_task # "none" THEN m ELSE [m EXCEPT !.playback_task = "run"]

on_state_changed(m, old_state, new_state) ==
    CASE new_state = "initializing" ->
            [m EXCEPT !.waiting_for_image_frames = TRUE]
      [] new_state \in {"idle", "waiting_interaction_ready"} ->
            LET m1 == [m EXCEPT !.transition_time = NoTransition]
                m2 == IF m1.previous_speech_frame # NoFrame
                      THEN [seek_frame(m1, m1.previous_speech_frame + 1)
                                EXCEPT !.previous_speech_frame = NoFrame]
                      ELSE m1
            IN  IF old_state = "initializing" THEN _start_playback(m2) ELSE m2
      [] new_state = "speech" ->
            [m EXCEPT !.transition_time = NoTransition]
      [] new_state = "idle_to_speech" ->
            [m EXCEPT !.waiting_for_image_frames = TRUE,
                      !.transition_time = m.playback_time + IdleToSpeechTicks]
      [] OTHER -> m

\* ------------------------------------------------------- OjinPersonaService
\* a _close_interaction that leaves the interaction in place
_close_interaction_keeps(m) == m

\* OjinPersonaInteraction.close and the service's _close_interaction
_close_interaction(m) == [m EXCEPT !.interaction = None]

\* _start_interaction(is_speech=False) up to its await of
\* client.start_interaction(): a fresh interaction replaces the current one
StartIdleInteraction(m) ==
    [m EXCEPT !.interaction =
        [NewInteraction EXCEPT !.state = "starting", !.start_frame_idx = 0,
                               !.frame_idx = 0]]

\* a callback that pushes no OjinPersonaInitializedFrame
_on_state_changed_silent(m, old_state, new_state) ==
    LET m1 == IF new_state = "initializing" THEN StartIdleInteraction(m) ELSE m
        m3 == IF new_state = "speech" /\ ~m1.audio_output_task
              THEN [m1 EXCEPT !.audio_output_task = TRUE]
              ELSE m1
        m4 == _close_interaction(m3)
        m5 == IF m4.audio_output_task
              THEN LET m6 == [m4 EXCEPT !.audio_output_task = FALSE]
                   IN  IF push_bot_stopped_speaking_frames
                       THEN Emit(m6, "BotStoppedSpeakingUp") ELSE m6
              ELSE m4
    IN  IF new_state = "idle" THEN m5 ELSE m3

\* _on_state_changed, the callback set_state awaits; for INITIALIZING up to
\* the await inside _start_interaction
_on_state_changed(m, old_state, new_state) ==
    LET m1 == IF new_state = "initializing" THEN StartIdleInteraction(m) ELSE m
        m2 == IF old_state = "initializing" /\ new_state = "idle"
              THEN Emit(Emit([m1 EXCEPT !.init_down = @ + 1, !.init_up = @ + 1],
                             "InitializedDown"), "InitializedUp")
              ELSE m1
        m3 == IF new_state = "speech" /\ ~m2.audio_output_task
              THEN [m2 EXCEPT !.audio_output_task = TRUE]
              ELSE m2
        m4 == _close_interaction(m3)
        m5 == IF m4.audio_output_task
              THEN LET m6 == [m4 EXCEPT !.audio_output_task = FALSE]
                   IN  IF push_bot_stopped_speaking_frames
                       THEN Emit(m6, "BotStoppedSpeakingUp") ELSE m6
              ELSE m4
    IN  IF new_state = "idle" THEN m5 ELSE m3

\* a set_state without its early return
set_state_always(m, new_state) ==
    LET old_state == m.state
        m1 == [m EXCEPT !.state = new_state, !.tr = Append(@, new_state)]
    IN  _on_state_changed(on_state_changed(m1, old_state, new_state),
                          old_state, new_state)

\* OjinPersonaFSM.set_state
set_state(m, new_state) ==
    IF m.state = new_state THEN m
    ELSE LET old_state == m.state
             m1 == [m EXCEPT !.state = new_state, !.tr = Append(@, new_state)]
         IN  _on_state_changed(on_state_changed(m1, old_state, new_state),
                               old_state, new_state)

\* OjinPersonaFSM.interrupt
interrupt(m) ==
    IF m.state \in {"speech", "idle_to_speech"}
    THEN [set_state(m, "idle") EXCEPT !.speech_frames = <<>>]
    ELSE m

\* _start_interaction(new_interaction, is_speech=True) up to its await of
\* client.start_interaction(); raises when the client is gone
StartSpeechInteraction(m, new_interaction) ==
    LET m1 == [m EXCEPT !.interaction =
                  [new_interaction EXCEPT !.live = TRUE, !.state = "starting",
                                          !.is_speech = TRUE]]
        m2 == set_state(m1, "waiting_interaction_ready")
    IN  IF m2.client = "none" THEN Raise(m2) ELSE m2

\* _start_interaction after client.start_interaction() has returned: the id
\* is stored on whatever self._interaction is by then
StartInteractionResume(m) ==
    IF ~m.interaction.live THEN Raise(m)
    ELSE [m EXCEPT !.interaction.interaction_id = "id",
                   !.interaction.state = "waiting_ready"]

get_fsm_state(m) == IF m.fsm THEN m.state ELSE "invalid"

is_pending_initialization(m) == get_fsm_state(m) \notin {"initializing", "invalid"}

is_tts_input_allowed(m) ==
    \/ ~m.interaction.live
    \/ m.interaction.state \in {"active", "waiting_ready"}

\* ------------------------------------------------------------------ tasks
\* A task that is not inside a handler
Ready ==
    [pc |-> "ready", op |-> "", st |-> "", ist |-> "", a |-> "", n |-> 0,
     id |-> "", out |-> <<>>, tr |-> <<>>]

\* No handler completed in the last step (a task suspended)
Await ==
    [op |-> "await", st |-> "", ist |-> "", a |-> "", n |-> 0,
     id |-> "", out |-> <<>>, tr |-> <<>>, raised |-> FALSE]

\* The handler that starts now: its name, its argument, and the FSM state
\* and interaction state it finds (id: the interaction_id of the message
\* handled, for an InteractionResponse)
Ctx(op, a, n) ==
    [pc |-> "ready", op |-> op, st |-> state,
     ist |-> IF interaction.live THEN interaction.state ELSE "none",
     a |-> a, n |-> n, id |-> "", out |-> <<>>, tr |-> <<>>]

Suspended(c, pc, m) == [c EXCEPT !.pc = pc, !.out = m.out, !.tr = m.tr]

Completed(c, m) ==
    [op |-> c.op, st |-> c.st, ist |-> c.ist, a |-> c.a,
     n |-> IF c.op = "tick" THEN m.pts ELSE c.n, id |-> c.id,
     out |-> m.out, tr |-> m.tr, raised |-> m.raised]

\* ----------------------------------------------------- connect_with_retry
\* the loop running one attempt too many
LastAttemptOffByOne(attempt) == attempt >= MaxRetries

\* for attempt in range(client_connect_max_retries): is this the last one
LastAttempt(attempt) == attempt >= MaxRetries - 1

\* a handler that catches every exception
RetryableAnyError(outcome) == outcome # "ok"

\* except ConnectionError
Retryable(outcome) == outcome = "ConnectionError"

\* _start without its early return
StartsTasksAlways(is_connected) == TRUE

\* _start: if not is_connected: return
StartsTasks(is_connected) == is_connected

\* process_frame(StartFrame): push_frame(frame), then _start up to the first
\* await of client.connect()
StartFrame ==
    /\ ~started /\ ppc.pc = "ready"
    /\ started' = TRUE
    /\ LET c == Ctx("StartFrame", "", 0)
           m == Emit(M(<<>>, <<>>), "Forward")
       IN  IF MaxRetries > 0
           THEN /\ Commit(m)
                /\ ppc' = Suspended(c, "connecting", m)
                /\ ev' = Await
                /\ conn_result' = conn_result
           ELSE LET m1 == Emit(Emit(m, "EndUp"), "EndDown")
                IN  /\ Commit(m1)
                    /\ ppc' = Ready
                    /\ ev' = Completed(c, m1)
                    /\ conn_result' = "false"
    /\ UNCHANGED <<msg_budget, time_budget, rx, last_pts, last_img, final_rx, sent>>
    /\ UNCHANGED <<rpc, spc, attempts, last_outcome, nfrm, nmsg, ntts>>

\* one client.connect() call of connect_with_retry returns or raises, and
\* _start runs on to the next call or to its end
Connect(outcome) ==
    /\ ppc.pc = "connecting"
    /\ attempts' = attempts + 1
    /\ last_outcome' = outcome
    /\ LET m == M(ppc.out, ppc.tr)
       IN  CASE outcome = "ok" ->
                    LET m1 == [m EXCEPT !.client = "connected"]
                    IN  /\ Commit(m1)
                        /\ conn_result' = "true"
                        /\ spc' = IF StartsTasks(TRUE) THEN [Ready EXCEPT !.pc = "loop"] ELSE spc
                        /\ rpc' = IF StartsTasks(TRUE) THEN [Ready EXCEPT !.pc = "recv"] ELSE rpc
                        /\ ppc' = Ready
                        /\ ev' = Completed(ppc, m1)
             [] outcome # "ok" /\ Retryable(outcome) /\ ~LastAttempt(attempts) ->
                    /\ Commit(m)
                    /\ UNCHANGED <<conn_result, spc, rpc, ppc>>
                    /\ ev' = Await
             [] outcome # "ok" /\ Retryable(outcome) /\ LastAttempt(attempts) ->
                    LET m1 == Emit(Emit(m, "EndUp"), "EndDown")
                    IN  /\ Commit(m1)
                        /\ conn_result' = "false"
                        /\ spc' = IF StartsTasks(FALSE) THEN [Ready EXCEPT !.pc = "loop"] ELSE spc
                        /\ rpc' = IF StartsTasks(FALSE) THEN [Ready EXCEPT !.pc = "recv"] ELSE rpc
                        /\ ppc' = Ready
                        /\ ev' = Completed(ppc, m1)
             [] OTHER ->
                    LET m1 == Raise(m)
                    IN  /\ Commit(m1)
                        /\ conn_result' = "raised"
                        /\ UNCHANGED <<spc, rpc>>
                        /\ ppc' = Ready
                        /\ ev' = Completed(ppc, m1)
    /\ UNCHANGED <<msg_budget, time_budget, rx, last_pts, last_img, final_rx, sent>>
    /\ UNCHANGED <<started, nfrm, nmsg, ntts>>

\* ---------------------------------------------------------- process_frame
CanProcessFrame == started /\ ppc.pc = "ready" /\ nfrm < MaxFrames

\* push_frame(frame, direction) of the frame being processed
Forward(m) == Emit(m, "Forward")

\* process_frame(TTSAudioRawFrame): if self._settings.tts_audio_passthrough
Passthrough(m) == IF tts_audio_passthrough THEN Forward(m) ELSE m

\* a queue that hands out the newest chunk first
QueueAudioFirst(m, chunk) ==
    [m EXCEPT !.interaction.audio_input_queue = <<chunk>> \o @,
              !.interaction.unfinished = @ + 1]

\* audio_input_queue.put of the current interaction
QueueAudio(m, chunk) ==
    [m EXCEPT !.interaction.audio_input_queue = Append(@, chunk),
              !.interaction.unfinished = @ + 1]

\* a handler that drops the chunk while not initialized
QueuePendingDrops(m, chunk) == m

\* _handle_input_audio while not initialized: the chunk goes to the pending
\* interaction, created on first use
QueuePending(m, chunk) ==
    LET p == IF m.pending_interaction.live THEN m.pending_interaction
             ELSE NewInteraction
    IN  [m EXCEPT !.pending_interaction =
            [p EXCEPT !.audio_input_queue = Append(@, chunk),
                      !.unfinished = @ + 1]]

\* process_frame(TTSAudioRawFrame) -> _handle_input_audio, up to the await
\* inside _start_interaction when a speech interaction has to be started
TTSAudioRawFrame ==
    /\ CanProcessFrame
    /\ nfrm' = nfrm + 1
    /\ ntts' = ntts + 1
    /\ rx' = Append(rx, IF fsm THEN state ELSE "invalid")
    /\ LET chunk == ntts + 1
           c == Ctx("TTSAudioRawFrame", "", chunk)
           m == M(<<>>, <<>>)
           started_m == StartSpeechInteraction(m, NewInteraction)
           must_start == /\ is_pending_initialization(m)
                         /\ is_tts_input_allowed(m)
                         /\ ~m.interaction.live
           done_m ==
               IF ~is_pending_initialization(m)
               THEN IF ~m.interaction.live THEN Passthrough(m)
                    ELSE Passthrough(QueuePending(m, chunk))
               ELSE IF is_tts_input_allowed(m)
                    THEN IF ~m.interaction.live THEN started_m
                         ELSE Passthrough(QueueAudio(m, chunk))
                    ELSE Passthrough(m)
       IN  IF must_start /\ ~started_m.raised
           THEN /\ Commit(started_m)
                /\ ppc' = Suspended(c, "start_interaction", started_m)
                /\ ev' = Await
           ELSE /\ Commit(done_m)
                /\ ppc' = Ready
                /\ ev' = Completed(c, done_m)
    /\ UNCHANGED <<msg_budget, time_budget, last_pts, last_img, final_rx, sent>>
    /\ UNCHANGED <<rpc, spc, started, attempts, last_outcome, conn_result, nmsg>>

\* _handle_input_audio once client.start_interaction() has returned
TTSAudioResume ==
    /\ ppc.pc = "start_interaction"
    /\ LET m == StartInteractionResume(M(ppc.out, ppc.tr))
           m1 == IF m.raised THEN m ELSE Passthrough(QueueAudio(m, ppc.n))
       IN  /\ Commit(m1)
           /\ ev' = Completed(ppc, m1)
    /\ ppc' = Ready
    /\ UNCHANGED <<msg_budget, time_budget, rx, last_pts, last_img, final_rx, sent>>
    /\ UNCHANGED <<rpc, spc, started, attempts, last_outcome, conn_result,
                   nfrm, nmsg, ntts>>

\* _end_interaction
_end_interaction(m) ==
    IF ~m.interaction.live THEN m
    ELSE [m EXCEPT !.interaction.received_all_interaction_inputs = TRUE]

\* process_frame(TTSStoppedFrame)
TTSStoppedFrame ==
    /\ CanProcessFrame
    /\ nfrm' = nfrm + 1
    /\ LET c == Ctx("TTSStoppedFrame", "", 0)
           m == M(<<>>, <<>>)
           m1 == IF m.pending_interaction.live
                 THEN [m EXCEPT !.pending_interaction = None]
                 ELSE _end_interaction(m)
           m2 == Forward(m1)
       IN  /\ Commit(m2)
           /\ ev' = Completed(c, m2)
    /\ UNCHANGED <<msg_budget, time_budget, rx, last_pts, last_img, final_rx, sent>>
    /\ UNCHANGED <<ppc, rpc, spc, started, attempts, last_outcome, conn_result,
                   nmsg, ntts>>

\* process_frame(StartInterruptionFrame): the condition under which
\* _interrupt is called
InterruptAllowed(m) == ~is_pending_initialization(m) /\ is_tts_input_allowed(m)

\* _interrupt up to its await of push_ojin_message(CancelInteraction):
\* nothing without a current interaction (interaction_id is "" before it is
\* assigned, never None); push_ojin_message asserts a client
InterruptBegin(m) ==
    IF ~m.interaction.live THEN m
    ELSE IF m.interaction.state = "inactive" THEN m
    ELSE IF m.client = "none" THEN Raise(m)
    ELSE Emit(m, "CancelInteraction")

\* _interrupt after the cancel message was sent
InterruptEnd(m) ==
    LET m1 == IF m.fsm THEN interrupt(interrupt(m)) ELSE m
    IN  _close_interaction(m1)

\* a branch that sends the cancel message whatever the state
InterruptionBranchAlwaysCancels(m) == Emit(m, "CancelInteraction")

\* process_frame(StartInterruptionFrame) up to the forwarding of the frame
InterruptionBranch(m) == IF InterruptAllowed(m) THEN InterruptBegin(m) ELSE m

StartInterruptionFrame ==
    /\ CanProcessFrame
    /\ nfrm' = nfrm + 1
    /\ LET c == Ctx("StartInterruptionFrame", "", 0)
           m == InterruptionBranch(M(<<>>, <<>>))
       IN  IF ~m.raised /\ Count("CancelInteraction", m.out) > 0
           THEN /\ Commit(m)
                /\ ppc' = Suspended(c, "interrupt_sent", m)
                /\ ev' = Await
           ELSE LET m1 == IF m.raised THEN m ELSE Forward(m)
                IN  /\ Commit(m1)
                    /\ ppc' = Ready
                    /\ ev' = Completed(c, m1)
    /\ UNCHANGED <<msg_budget, time_budget, rx, last_pts, last_img, final_rx, sent>>
    /\ UNCHANGED <<rpc, spc, started, attempts, last_outcome, conn_result,
                   nmsg, ntts>>

\* process_frame(StartInterruptionFrame) once the cancel message is sent
InterruptResume ==
    /\ ppc.pc = "interrupt_sent"
    /\ LET m == Forward(InterruptEnd(M(ppc.out, ppc.tr)))
       IN  /\ Commit(m)
           /\ ev' = Completed(ppc, m)
    /\ ppc' = Ready
    /\ UNCHANGED <<msg_budget, time_budget, rx, last_pts, last_img, final_rx, sent>>
    /\ UNCHANGED <<rpc, spc, started, attempts, last_outcome, conn_result,
                   nfrm, nmsg, ntts>>

\* process_frame of any other frame
OtherFrame ==
    /\ CanProcessFrame
    /\ nfrm' = nfrm + 1
    /\ LET c == Ctx("OtherFrame", "", 0)
           m == Forward(M(<<>>, <<>>))
       IN  /\ Commit(m)
           /\ ev' = Completed(c, m)
    /\ UNCHANGED <<msg_budget, time_budget, rx, last_pts, last_img, final_rx, sent>>
    /\ UNCHANGED <<ppc, rpc, spc, started, attempts, last_outcome, conn_result,
                   nmsg, ntts>>

\* _stop: cancel the two tasks, close the client, _interrupt, close the FSM.
\* _receive_task is an attribute only once _start has created the tasks;
\* _interrupt sends through the client that was just set to None;
\* _stop_playback uses contextlib.suppress, which the module does not import.
_stop(m) ==
    IF rpc.pc = "unset" THEN Raise(m)
    ELSE LET m1 == InterruptBegin([m EXCEPT !.client = "none"])
         IN  IF m1.raised \/ ~m1.fsm THEN m1
             ELSE IF m1.playback_task = "none" THEN [m1 EXCEPT !.fsm = FALSE]
             ELSE Raise([m1 EXCEPT !.playback_task = "cancelled"])

\* process_frame(EndFrame | CancelFrame)
EndFrame ==
    /\ CanProcessFrame
    /\ nfrm' = nfrm + 1
    /\ LET c == Ctx("EndFrame", "", 0)
           m == _stop(M(<<>>, <<>>))
           m1 == IF m.raised THEN m ELSE Forward(m)
       IN  /\ Commit(m1)
           /\ ev' = Completed(c, m1)
    /\ spc' = [Ready EXCEPT !.pc = "none"]
    /\ rpc' = IF rpc.pc = "unset" THEN rpc ELSE [Ready EXCEPT !.pc = "none"]
    /\ UNCHANGED <<msg_budget, time_budget, rx, last_pts, last_img, final_rx, sent>>
    /\ UNCHANGED <<ppc, started, attempts, last_outcome, conn_result, nmsg, ntts>>

\* ------------------------------------------------------- _receive_messages
CanReceive == rpc.pc = "recv" /\ nmsg < msg_budget

\* a buffer that puts the newest frame first
receive_image_frame_first(m, pts) ==
    IF m.state = "initializing"
    THEN [m EXCEPT !.num_idle = @ + 1]
    ELSE [m EXCEPT !.speech_frames = <<pts>> \o @]

\* OjinPersonaFSM.receive_image_frame
receive_image_frame(m, pts) ==
    IF m.state = "initializing"
    THEN [m EXCEPT !.num_idle = @ + 1]
    ELSE [m EXCEPT !.speech_frames = Append(@, pts)]

\* on_conversation_signal(NO_MORE_IMAGE_FRAMES_EXPECTED)
NoMoreImageFramesExpected(m) ==
    LET m1 == [m EXCEPT !.waiting_for_image_frames = FALSE]
    IN  IF m1.state = "initializing" THEN set_state(m1, "idle") ELSE m1

\* _handle_ojin_message(InteractionResponse) up to the start of a pending
\* interaction
HandleInteractionResponse(m, is_final_response) ==
    IF ~m.interaction.live THEN m
    ELSE LET m1 == receive_image_frame(m, m.interaction.frame_idx)
             m2 == [m1 EXCEPT !.interaction.frame_idx = @ + 1]
             m3 == NoMoreImageFramesExpected(m2)
         IN  IF ~is_final_response THEN m2
             ELSE IF m3.pending_interaction.live
                  THEN StartSpeechInteraction(m3, m3.pending_interaction)
                  ELSE m3

\* the message's interaction_id is only logged (debug_frame), never compared;
\* without a current interaction every id is handled alike, so one is tried
InteractionResponse(is_final_response, interaction_id) ==
    /\ CanReceive
    /\ interaction_id = "id" \/ interaction.live
    /\ interaction.live =>
          IF state = "initializing" THEN num_idle < MaxIdle
          ELSE Len(speech_frames) < MaxSpeech
    /\ nmsg' = nmsg + 1
    /\ LET c == [Ctx("InteractionResponse",
                     IF is_final_response THEN "final" ELSE "", 0)
                    EXCEPT !.id = interaction_id]
           m == M(<<>>, <<>>)
           m1 == HandleInteractionResponse(m, is_final_response)
           starts == /\ m.interaction.live /\ is_final_response
                     /\ m.pending_interaction.live
       IN  /\ Commit(m1)
           /\ IF starts
              THEN /\ rpc' = Suspended(c, "start_pending", m1)
                   /\ ev' = Await
              ELSE /\ rpc' = rpc
                   /\ ev' = Completed(c, m1)
    /\ final_rx' = (final_rx \/ is_final_response)
    /\ UNCHANGED <<msg_budget, time_budget, rx, last_pts, last_img, sent>>
    /\ UNCHANGED <<ppc, spc, started, attempts, last_outcome, conn_result,
                   nfrm, ntts>>

\* ... once client.start_interaction() has returned for the pending
\* interaction; an exception ends the receive task
PendingResume ==
    /\ rpc.pc = "start_pending"
    /\ LET m == StartInteractionResume(M(rpc.out, rpc.tr))
           m1 == IF m.raised THEN m ELSE [m EXCEPT !.pending_interaction = None]
       IN  /\ Commit(m1)
           /\ ev' = Completed(rpc, m1)
           /\ rpc' = [Ready EXCEPT !.pc = IF m1.raised THEN "dead" ELSE "recv"]
    /\ UNCHANGED <<msg_budget, time_budget, rx, last_pts, last_img, final_rx, sent>>
    /\ UNCHANGED <<ppc, spc, started, attempts, last_outcome, conn_result,
                   nfrm, nmsg, ntts>>

\* _handle_ojin_message(SessionReady): fsm.start(), up to the await inside
\* _start_interaction
SessionReady ==
    /\ CanReceive
    /\ nmsg' = nmsg + 1
    /\ LET c == Ctx("SessionReady", "", 0)
           m == set_state(M(<<>>, <<>>), "initializing")
       IN  /\ Commit(m)
           /\ IF state # "initializing"
              THEN /\ rpc' = Suspended(c, "start_idle", m)
                   /\ ev' = Await
              ELSE /\ rpc' = rpc
                   /\ ev' = Completed(c, m)
    /\ UNCHANGED <<msg_budget, time_budget, rx, last_pts, last_img, final_rx, sent>>
    /\ UNCHANGED <<ppc, spc, started, attempts, last_outcome, conn_result,
                   nfrm, ntts>>

\* _on_state_changed(INITIALIZING) once client.start_interaction() has
\* returned: ALL_AUDIO_PROCESSED, then _generate_and_send_silence(.., True)
SessionReadyResume ==
    /\ rpc.pc = "start_idle"
    /\ LET m == StartInteractionResume(M(rpc.out, rpc.tr))
           m1 == IF m.raised THEN m
                 ELSE Emit([m EXCEPT !.interaction.state = "all_audio_processed",
                                     !.interaction.last_input_sent = TRUE],
                           "InteractionInputLast")
       IN  /\ Commit(m1)
           /\ ev' = Completed(rpc, m1)
           /\ rpc' = [Ready EXCEPT !.pc = IF m1.raised THEN "dead" ELSE "recv"]
    /\ UNCHANGED <<msg_budget, time_budget, rx, last_pts, last_img, final_rx, sent>>
    /\ UNCHANGED <<ppc, spc, started, attempts, last_outcome, conn_result,
                   nfrm, nmsg, ntts>>

\* _handle_ojin_message(InteractionReady)
HandleInteractionReady(m) ==
    IF m.interaction.live /\ m.interaction.state = "waiting_ready"
    THEN LET m1 == set_state([m EXCEPT !.interaction.state = "active"],
                             "idle_to_speech")
         IN  [m1 EXCEPT !.interaction.start_frame_idx = get_transition_frame_idx(m1),
                        !.interaction.frame_idx = get_transition_frame_idx(m1)]
    ELSE m

InteractionReady ==
    /\ CanReceive
    /\ nmsg' = nmsg + 1
    /\ LET c == Ctx("InteractionReady", "", 0)
           m == HandleInteractionReady(M(<<>>, <<>>))
       IN  /\ Commit(m)
           /\ ev' = Completed(c, m)
    /\ final_rx' = (final_rx /\ state' = state)
    /\ UNCHANGED <<msg_budget, time_budget, rx, last_pts, last_img, sent>>
    /\ UNCHANGED <<ppc, rpc, spc, started, attempts, last_outcome, conn_result,
                   nfrm, ntts>>

\* a handler that treats every error code as fatal
IsFatalAlways(code) == TRUE

\* _handle_ojin_message(ErrorResponse): is_fatal
IsFatal(code) ==
    code \in {"NO_BACKEND_SERVER_AVAILABLE", "FAILED_CREATE_MODEL",
              "INVALID_PERSONA_ID_CONFIGURATION"}

ErrorResponse(code) ==
    /\ CanReceive
    /\ nmsg' = nmsg + 1
    /\ LET c == Ctx("ErrorResponse", code, 0)
           m == M(<<>>, <<>>)
           m1 == IF IsFatal(code) THEN Emit(Emit(m, "EndUp"), "EndDown") ELSE m
       IN  /\ Commit(m1)
           /\ ev' = Completed(c, m1)
    /\ UNCHANGED <<msg_budget, time_budget, rx, last_pts, last_img, final_rx, sent>>
    /\ UNCHANGED <<ppc, rpc, spc, started, attempts, last_outcome, conn_result,
                   nfrm, ntts>>

\* --------------------------------------------------- _process_queued_audio
\* a sender that waits only for an interaction to exist
SenderWaitsForInteractionOnly(m) == ~m.interaction.live

\* the loop's wait: "until we have a running interaction"
SenderWaits(m) ==
    \/ ~m.interaction.live
    \/ m.interaction.state \in {"waiting_ready", "all_audio_processed"}

\* is_final_message; elapsed: ending_timestamp + ending_extra_time has passed
is_final_message(m, elapsed) ==
    /\ m.interaction.received_all_interaction_inputs
    /\ elapsed
    /\ Len(m.interaction.audio_input_queue) <= 1

\* one iteration that takes a chunk (or, for the final message of an empty
\* queue, a chunk of silence) up to the await of push_ojin_message
SenderTake(elapsed) ==
    /\ spc.pc = "loop"
    /\ LET m == M(<<>>, <<>>)
           final == is_final_message(m, elapsed)
           q == m.interaction.audio_input_queue
           c == Ctx("audio_sender",
                    IF q # <<>> THEN "dequeued" ELSE "silence",
                    IF q # <<>> THEN Head(q) ELSE 0)
           m1 == IF q # <<>>
                 THEN [m EXCEPT !.interaction.audio_input_queue = Tail(@)]
                 ELSE m
           m2 == IF final
                 THEN Emit([m1 EXCEPT !.interaction.state = "all_audio_processed",
                                      !.interaction.last_input_sent = TRUE],
                           "InteractionInputLast")
                 ELSE Emit(m1, "InteractionInput")
       IN  /\ ~SenderWaits(m)
           /\ q # <<>> \/ final
           /\ Commit(m2)
           /\ spc' = Suspended(c, "sending", m2)
           /\ sent' = IF q # <<>> THEN Append(sent, Head(q)) ELSE sent
    /\ ev' = Await
    /\ UNCHANGED <<msg_budget, time_budget, rx, last_pts, last_img, final_rx>>
    /\ UNCHANGED <<ppc, rpc, started, attempts, last_outcome, conn_result,
                   nfrm, nmsg, ntts>>

\* ... after push_ojin_message: enqueue_audio_output asserts a current
\* interaction; task_done raises ValueError on a queue with nothing unfinished.
\* An exception ends the task.
SenderResume ==
    /\ spc.pc = "sending"
    /\ LET m == M(spc.out, spc.tr)
           m1 == IF ~m.interaction.live THEN Raise(m)
                 ELSE [m EXCEPT !.interaction.audio_output_queue = @ + 1]
           m2 == IF m1.raised \/ spc.a # "dequeued" THEN m1
                 ELSE IF m1.interaction.unfinished = 0 THEN Raise(m1)
                 ELSE [m1 EXCEPT !.interaction.unfinished = @ - 1]
       IN  /\ Commit(m2)
           /\ ev' = Completed(spc, m2)
           /\ spc' = [Ready EXCEPT !.pc = IF m2.raised THEN "dead" ELSE "loop"]
    /\ UNCHANGED <<msg_budget, time_budget, rx, last_pts, last_img, final_rx, sent>>
    /\ UNCHANGED <<ppc, rpc, started, attempts, last_outcome, conn_result,
                   nfrm, nmsg, ntts>>

\* ------------------------------------------------------ OjinPersonaFSM._run
should_process_output(m) ==
    m.state \in {"idle", "speech", "idle_to_speech", "waiting_interaction_ready"}

\* a test that ends the speech as soon as the buffer is empty
SpeechEndedWhenEmpty(m) ==
    /\ m.speech_frames = <<>>
    /\ m.state \in {"speech", "idle_to_speech"}

\* the loop's "Speech ended" test
SpeechEnded(m) ==
    /\ ~m.waiting_for_image_frames
    /\ m.speech_frames = <<>>
    /\ m.state \in {"speech", "idle_to_speech"}

\* an idle image that comes with a frame of silence
IdleImageWithSilence(m) ==
    IF MirrorRaises(m.num_idle) THEN Raise(m)
    ELSE [Emit(Emit(m, "IdleImage"), "Audio") EXCEPT !.pts = get_current_frame_idx(m)]

\* get_current_idle_frame, pushed with pts = the current frame index
IdleImage(m) ==
    IF MirrorRaises(m.num_idle) THEN Raise(m)
    ELSE [Emit(m, "IdleImage") EXCEPT !.pts = get_current_frame_idx(m)]

\* a clock that falls back to the idle cache whenever the speech buffer is empty
StarvedShowsIdle(m) ==
    IF m.current_frame_idx = get_current_frame_idx(m) THEN m
    ELSE LET m1 == [m EXCEPT !.current_frame_idx = get_current_frame_idx(m)]
             m2 == IF m1.current_frame_idx = get_transition_frame_idx(m1)
                   THEN set_state(m1, "speech") ELSE m1
             missed == [m2 EXCEPT !.num_frames_missed = @ + 1]
         IN  CASE m2.state \in {"idle", "idle_to_speech", "waiting_interaction_ready"} ->
                     IdleImage(m2)
               [] m2.state = "speech" ->
                     IF m2.speech_frames # <<>>
                     THEN [Emit(m2, "SpeechImage") EXCEPT
                              !.previous_speech_frame = Head(m2.speech_frames),
                              !.pts = Head(m2.speech_frames),
                              !.speech_frames = Tail(@),
                              !.num_frames_missed = 0]
                     ELSE IdleImage(missed)
               [] OTHER -> m2

\* a clock that takes the index back when the speech buffer is empty
StarvedStallsClock(m) ==
    IF m.current_frame_idx = get_current_frame_idx(m) THEN m
    ELSE LET m1 == [m EXCEPT !.current_frame_idx = get_current_frame_idx(m)]
             m2 == IF m1.current_frame_idx = get_transition_frame_idx(m1)
                   THEN set_state(m1, "speech") ELSE m1
             missed == [m2 EXCEPT !.num_frames_missed = @ + 1]
         IN  CASE m2.state \in {"idle", "idle_to_speech", "waiting_interaction_ready"} ->
                     IdleImage(m2)
               [] m2.state = "speech" ->
                     IF m2.speech_frames # <<>>
                     THEN [Emit(m2, "SpeechImage") EXCEPT
                              !.previous_speech_frame = Head(m2.speech_frames),
                              !.pts = Head(m2.speech_frames),
                              !.speech_frames = Tail(@),
                              !.num_frames_missed = 0]
                     ELSE IF m2.previous_speech_frame # NoFrame
                          THEN [missed EXCEPT
                                   !.current_frame_idx = m.current_frame_idx]
                          ELSE IdleImage(missed)
               [] OTHER -> m2

\* the frame the clock pushes when the frame index has advanced
get_next_persona_frame(m) ==
    IF m.current_frame_idx = get_current_frame_idx(m) THEN m
    ELSE LET m1 == [m EXCEPT !.current_frame_idx = get_current_frame_idx(m)]
             m2 == IF m1.current_frame_idx = get_transition_frame_idx(m1)
                   THEN set_state(m1, "speech") ELSE m1
             missed == [m2 EXCEPT !.num_frames_missed = @ + 1]
         IN  CASE m2.state \in {"idle", "idle_to_speech", "waiting_interaction_ready"} ->
                     IdleImage(m2)
               [] m2.state = "speech" ->
                     IF m2.speech_frames # <<>>
                     THEN [Emit(m2, "SpeechImage") EXCEPT
                              !.previous_speech_frame = Head(m2.speech_frames),
                              !.pts = Head(m2.speech_frames),
                              !.speech_frames = Tail(@),
                              !.num_frames_missed = 0]
                     ELSE IF m2.previous_speech_frame # NoFrame
                          THEN [Emit(missed, "SpeechImage") EXCEPT
                                   !.pts = m2.previous_speech_frame]
                          ELSE IdleImage(missed)
               [] OTHER -> m2

\* one iteration of the loop, delta ticks after the previous one; an
\* exception is logged and ends the loop
Tick(delta) ==
    /\ playback_task = "run"
    /\ playback_time + delta <= time_budget
    /\ LET c == Ctx("tick", "", 0)
           m == [M(<<>>, <<>>) EXCEPT !.playback_time = @ + delta]
           m1 == IF SpeechEnded(m) THEN set_state(m, "idle") ELSE m
           m2 == IF should_process_output(m1) THEN get_next_persona_frame(m1)
                 ELSE m1
           m3 == IF m2.raised THEN [m2 EXCEPT !.playback_task = "dead"] ELSE m2
       IN  /\ Commit(m3)
           /\ ev' = Completed(c, m3)
           /\ last_pts' = IF m3.pts # NoFrame THEN m3.pts ELSE last_pts
           /\ last_img' = IF Count("SpeechImage", m3.out) > 0 THEN "speech"
                          ELSE IF Count("IdleImage", m3.out) > 0 THEN "idle"
                          ELSE last_img
    /\ UNCHANGED <<msg_budget, time_budget, rx, final_rx, sent>>
    /\ UNCHANGED <<ppc, rpc, spc, started, attempts, last_outcome, conn_result,
                   nfrm, nmsg, ntts>>

\* ------------------------------------------------------ _push_audio_output
AudioOutput ==
    /\ audio_output_task
    /\ interaction.live /\ interaction.audio_output_queue > 0
    /\ LET c == Ctx("audio_output", "", 0)
           m == Emit([M(<<>>, <<>>) EXCEPT !.interaction.audio_output_queue = @ - 1],
                     "Audio")
       IN  /\ Commit(m)
           /\ ev' = Completed(c, m)
    /\ UNCHANGED <<msg_budget, time_budget, rx, last_pts, last_img, final_rx, sent>>
    /\ UNCHANGED <<ppc, rpc, spc, started, attempts, last_outcome, conn_result,
                   nfrm, nmsg, ntts>>

\* ------------------------------------------------------------------- spec
\* the engine after OjinPersonaService.__init__, before any frame
InitEngine ==
    /\ state = "invalid"
    /\ num_idle = 0
    /\ speech_frames = <<>>
    /\ transition_time = NoTransition
    /\ playback_time = 0
    /\ current_frame_idx = 0 - 1
    /\ waiting_for_image_frames = FALSE
    /\ previous_speech_frame = NoFrame
    /\ num_frames_missed = 0
    /\ playback_task = "none"
    /\ interaction = None
    /\ pending_interaction = None
    /\ audio_output_task = FALSE
    /\ client = "new"
    /\ fsm = TRUE
    /\ ppc = Ready
    /\ rpc = [Ready EXCEPT !.pc = "unset"]
    /\ spc = [Ready EXCEPT !.pc = "none"]
    /\ started = FALSE
    /\ attempts = 0
    /\ last_outcome = "none"
    /\ conn_result = "none"
    /\ nfrm = 0 /\ nmsg = 0 /\ ntts = 0
    /\ rx = <<>>
    /\ last_pts = NoFrame
    /\ last_img = "none"
    /\ final_rx = FALSE
    /\ sent = <<>>
    /\ init_down = 0 /\ init_up = 0
    /\ ev = [Await EXCEPT !.op = "init"]

Init == InitEngine /\ msg_budget = MaxMsgs /\ time_budget = MaxTime

\* a session in which the server sends one message more
InitLong == InitEngine /\ msg_budget = MaxMsgsLong /\ time_budget = MaxTime

\* the session once initialization has completed: connected at the first
\* attempt, SessionReady and MaxIdle InteractionResponses handled (the last
\* one final), the FSM in IDLE with its playback loop started and no frame
\* pushed yet; from here the server sends msg_budget - nmsg more messages, the
\* loop runs for MaxTimePlaying ticks and the pipeline sends two more frames
\* (the frames before them were frames the service only forwards)
Initialized ==
    /\ state = "idle"
    /\ num_idle = MaxIdle
    /\ speech_frames = <<>>
    /\ transition_time = NoTransition
    /\ playback_time = 0
    /\ current_frame_idx = 0 - 1
    /\ waiting_for_image_frames = FALSE
    /\ previous_speech_frame = NoFrame
    /\ num_frames_missed = 0
    /\ playback_task = "run"
    /\ interaction = None
    /\ pending_interaction = None
    /\ audio_output_task = FALSE
    /\ client = "connected"
    /\ fsm = TRUE
    /\ ppc = Ready
    /\ rpc = [Ready EXCEPT !.pc = "recv"]
    /\ spc = [Ready EXCEPT !.pc = "loop"]
    /\ started = TRUE
    /\ attempts = 1
    /\ last_outcome = "ok"
    /\ conn_result = "true"
    /\ nfrm = MaxFrames - 2 /\ nmsg = MaxIdle + 1 /\ ntts = 0
    /\ rx = <<>>
    /\ last_pts = NoFrame
    /\ last_img = "none"
    /\ final_rx = TRUE
    /\ sent = <<>>
    /\ init_down = 1 /\ init_up = 1
    /\ ev = [Await EXCEPT !.op = "InteractionResponse", !.st = "initializing",
                          !.ist = "all_audio_processed", !.a = "final",
                          !.id = "id", !.tr = <<"idle">>,
                          !.out = <<"InitializedDown", "InitializedUp">>]
    /\ time_budget = MaxTimePlaying

Next ==
    \/ StartFrame
    \/ \E outcome \in ConnectOutcomes : Connect(outcome)
    \/ TTSAudioRawFrame
    \/ TTSAudioResume
    \/ TTSStoppedFrame
    \/ StartInterruptionFrame
    \/ InterruptResume
    \/ EndFrame
    \/ OtherFrame
    \/ \E is_final_response \in BOOLEAN, interaction_id \in MessageIds :
          InteractionResponse(is_final_response, interaction_id)
    \/ PendingResume
    \/ SessionReady
    \/ SessionReadyResume
    \/ InteractionReady
    \/ \E code \in ErrorCodes : ErrorResponse(code)
    \/ \E elapsed \in BOOLEAN : SenderTake(elapsed)
    \/ SenderResume
    \/ \E delta \in 1..MaxStep : Tick(delta)
    \/ AudioOutput

Spec == Init /\ [][Next]_vars

SpecLong == InitLong /\ [][Next]_vars

\* PersonaPlaybackLoop.get_frame_at_time(playback_time): the position in
\* the idle cache of the frame shown, or the exception of the lookup
get_frame_at_time ==
    /\ ev.op # "get_frame_at_time"
    /\ ev' = [Await EXCEPT
                 !.op = "get_frame_at_time",
                 !.raised = MirrorRaises(num_idle),
                 !.n = IF MirrorRaises(num_idle) THEN NoFrame
                       ELSE mirror_index(get_current_frame_idx(M(<<>>, <<>>)),
                                         num_idle)]
    /\ UNCHANGED <<state, num_idle, speech_frames, transition_time,
                   playback_time, current_frame_idx, waiting_for_image_frames,
                   previous_speech_frame, num_frames_missed, playback_task,
                   interaction, pending_interaction, audio_output_task,
                   client, fsm, ppc,
                   rpc, spc, started, attempts, last_outcome, conn_result,
                   nfrm, nmsg, ntts, msg_budget, time_budget, rx, last_pts,
                   last_img, final_rx, sent, init_down,
                   init_up>>

\* an initialized session with an idle cache of any size, at any playback
\* position
InitLookup ==
    /\ state = "idle"
    /\ num_idle \in 1..MaxCache
    /\ speech_frames = <<>>
    /\ transition_time = NoTransition
    /\ playback_time \in 0..MaxLookupTime
    /\ current_frame_idx = 0 - 1
    /\ waiting_for_image_frames = FALSE
    /\ previous_speech_frame = NoFrame
    /\ num_frames_missed = 0
    /\ playback_task = "run"
    /\ interaction = None
    /\ pending_interaction = None
    /\ audio_output_task = FALSE
    /\ client = "connected"
    /\ fsm = TRUE
    /\ ppc = Ready
    /\ rpc = [Ready EXCEPT !.pc = "recv"]
    /\ spc = [Ready EXCEPT !.pc = "loop"]
    /\ started = TRUE
    /\ attempts = 1
    /\ last_outcome = "ok"
    /\ conn_result = "true"
    /\ nfrm = 0 /\ nmsg = num_idle + 1 /\ ntts = 0
    /\ rx = <<>>
    /\ last_pts = NoFrame
    /\ last_img = "none"
    /\ final_rx = TRUE
    /\ sent = <<>>
    /\ init_down = 1 /\ init_up = 1
    /\ ev = [Await EXCEPT !.op = "init"]
    /\ msg_budget = num_idle + 1
    /\ time_budget = playback_time

NextLookup == get_frame_at_time

SpecLookup == InitLookup /\ [][NextLookup]_vars

\* what can happen once the session is connected
NextPlaying ==
    \/ TTSAudioRawFrame
    \/ TTSAudioResume
    \/ TTSStoppedFrame
    \/ StartInterruptionFrame
    \/ InterruptResume
    \/ EndFrame
    \/ OtherFrame
    \/ \E is_final_response \in BOOLEAN, interaction_id \in MessageIds :
          InteractionResponse(is_final_response, interaction_id)
    \/ PendingResume
    \/ SessionReady
    \/ SessionReadyResume
    \/ InteractionReady
    \/ \E code \in ErrorCodes : ErrorResponse(code)
    \/ \E elapsed \in BOOLEAN : SenderTake(elapsed)
    \/ SenderResume
    \/ \E delta \in 1..MaxStep : Tick(delta)
    \/ AudioOutput

InitPlaying == Initialized /\ msg_budget = MaxIdle + 1 + MaxMsgsPlaying

SpecPlaying == InitPlaying /\ [][NextPlaying]_vars

\* a longer connected session, MaxMsgsPlayingLong messages after the
\* initialization, in which the pipeline sends TTS audio only, the server
\* reports no error and the playback loop wakes on schedule, once per frame
InitPlayingLong == Initialized /\ msg_budget = MaxIdle + 1 + MaxMsgsPlayingLong

NextPlayingLong ==
    \/ TTSAudioRawFrame
    \/ TTSAudioResume
    \/ \E is_final_response \in BOOLEAN, interaction_id \in MessageIds :
          InteractionResponse(is_final_response, interaction_id)
    \/ PendingResume
    \/ SessionReady
    \/ SessionReadyResume
    \/ InteractionReady
    \/ \E elapsed \in BOOLEAN : SenderTake(elapsed)
    \/ SenderResume
    \/ \E delta \in {TicksPerFrame} : Tick(delta)
    \/ AudioOutput

SpecPlayingLong == InitPlayingLong /\ [][NextPlayingLong]_vars

\* The event loop runs every task that can run: a suspended handler resumes,
\* the sender and the audio output take what is queued, the playback loop
\* ticks. Frames and server messages come when the environment sends them.
Scheduled ==
    /\ WF_vars(TTSAudioResume)
    /\ WF_vars(InterruptResume)
    /\ WF_vars(PendingResume)
    /\ WF_vars(SessionReadyResume)
    /\ WF_vars(\E elapsed \in BOOLEAN : SenderTake(elapsed))
    /\ WF_vars(SenderResume)
    /\ WF_vars(\E delta \in 1..MaxStep : Tick(delta))
    /\ WF_vars(AudioOutput)

SpecFair == Spec /\ Scheduled

\* one utterance in a connected session: the pipeline sends TTS audio, the
\* server answers with InteractionReady and InteractionResponses
\* (MaxMsgsUtterance messages), and the event loop runs every task that can
\* run
InitUtterance == Initialized /\ msg_budget = MaxIdle + 1 + MaxMsgsUtterance

NextUtterance ==
    \/ TTSAudioRawFrame
    \/ TTSAudioResume
    \/ \E is_final_response \in BOOLEAN, interaction_id \in MessageIds :
          InteractionResponse(is_final_response, interaction_id)
    \/ InteractionReady
    \/ \E elapsed \in BOOLEAN : SenderTake(elapsed)
    \/ SenderResume
    \/ \E delta \in 1..MaxStep : Tick(delta)
    \/ AudioOutput

ScheduledUtterance ==
    /\ WF_vars(TTSAudioResume)
    /\ WF_vars(\E elapsed \in BOOLEAN : SenderTake(elapsed))
    /\ WF_vars(SenderResume)
    /\ WF_vars(\E delta \in 1..MaxStep : Tick(delta))
    /\ WF_vars(AudioOutput)

SpecUtterance == InitUtterance /\ [][NextUtterance]_vars /\ ScheduledUtterance

\* ------------------------------------------------- connect_with_retry claims
EndFramesPushed(e) == <<Count("EndUp", e.out), Count("EndDown", e.out)>>

\* C1: connect_with_retry calls client.connect() at most
\* client_connect_max_retries times; once a call has succeeded no further call
\* is made; the successful call makes connect_with_retry return true with no
\* EndFrame pushed by the StartFrame handler.
C1_ConnectAttemptsBounded ==
    [][/\ attempts' <= MaxRetries
       /\ last_outcome = "ok" => attempts' = attempts
       /\ (attempts' # attempts /\ last_outcome' = "ok") =>
             /\ conn_result' = "true"
             /\ ev'.op = "StartFrame" /\ ~ev'.raised
             /\ EndFramesPushed(ev') = <<0, 0>>]_vars

\* a connect that succeeded on the last permitted attempt
C1_Witness ==
    /\ ev.op = "StartFrame" /\ conn_result = "true"
    /\ attempts = MaxRetries /\ last_outcome = "ok"

\* C2: when all client_connect_max_retries attempts raised ConnectionError,
\* the StartFrame handler has pushed exactly one EndFrame upstream and one
\* downstream, connect_with_retry returned false, neither the receive task
\* nor the audio-sender task exists, and no OjinPersonaInitializedFrame was
\* pushed.
C2_AllAttemptsFailed ==
    (attempts = MaxRetries /\ last_outcome = "ConnectionError") =>
        /\ conn_result = "false"
        /\ rpc.pc = "unset" /\ spc.pc = "none"
        /\ init_down = 0 /\ init_up = 0
        /\ ev.op = "StartFrame" => EndFramesPushed(ev) = <<1, 1>>

\* the handler that has just given up, and a frame processed afterwards
C2_Witness ==
    /\ attempts = MaxRetries /\ last_outcome = "ConnectionError"
    /\ conn_result = "false" /\ nfrm = MaxFrames

\* C3: a connect attempt follows a failed one only if that one raised
\* ConnectionError; after any other failure no attempt is pending and the
\* session has not started: no receive task, no audio-sender task.
C3_OnlyConnectionErrorRetries ==
    /\ (ppc.pc = "connecting" /\ attempts > 0) => last_outcome = "ConnectionError"
    /\ last_outcome = "OtherError" =>
          /\ ppc.pc # "connecting"
          /\ rpc.pc = "unset" /\ spc.pc = "none"
          /\ state = "invalid" /\ conn_result # "true"

\* another kind of failure on the attempt after a retried ConnectionError
C3_Witness ==
    /\ last_outcome = "OtherError" /\ attempts = 2 /\ ev.op = "StartFrame"

\* C4: a connect failure that is not a ConnectionError ends with an EndFrame
\* pushed upstream and an EndFrame pushed downstream.
C4_FatalConnectFailureEndsSession ==
    (ev.op = "StartFrame" /\ last_outcome = "OtherError") =>
        EndFramesPushed(ev) = <<1, 1>>

\* ---------------------------------------------------- initialization claims
InitializedPushed(e) ==
    <<Count("InitializedDown", e.out), Count("InitializedUp", e.out)>>

\* C5: an InteractionResponse with is_final_response = true handled while the
\* FSM is INITIALIZING takes the FSM to IDLE, pushes one
\* OjinPersonaInitializedFrame downstream and one upstream, and leaves a
\* playback task started; a non-final one handled in INITIALIZING enters no
\* state and pushes no OjinPersonaInitializedFrame.
C5_FinalResponseInitializes ==
    (ev.op = "InteractionResponse" /\ ev.st = "initializing") =>
        IF ev.a = "final"
        THEN /\ ev.tr # <<>> /\ ev.tr[1] = "idle"
             /\ InitializedPushed(ev) = <<1, 1>>
             /\ playback_task # "none"
        ELSE /\ ev.tr = <<>>
             /\ InitializedPushed(ev) = <<0, 0>>

\* C6: OjinPersonaInitializedFrame is pushed at most once in each direction,
\* and exactly once in each direction once the FSM has left INITIALIZING.
C6_InitializedAtMostOnce ==
    /\ init_down <= 1 /\ init_up <= 1
    /\ state \notin {"invalid", "initializing"} => init_down = 1 /\ init_up = 1

\* ------------------------------------------------------ interruption claims
Speaking(e) == e.st \in {"speech", "idle_to_speech"} /\ e.ist = "active"

\* C7: a StartInterruptionFrame handled while the FSM is in SPEECH or
\* IDLE_TO_SPEECH with an active interaction sends exactly one
\* CancelInteraction and leaves the speech frame buffer and the audio input
\* queue empty, and a playback tick that comes next finds the FSM in IDLE.
C7_InterruptionWhileSpeaking ==
    [][/\ (ev'.op = "StartInterruptionFrame" /\ Speaking(ev')) =>
             /\ Count("CancelInteraction", ev'.out) = 1
             /\ speech_frames' = <<>>
             /\ interaction'.audio_input_queue = <<>>
       /\ (ev.op = "StartInterruptionFrame" /\ Speaking(ev) /\ ev'.op = "tick") =>
             state' = "idle"]_vars

\* C8: when _interrupt has run with a current interaction that is not
\* INACTIVE (from a StartInterruptionFrame that got as far as the cancel
\* message, or from _stop in IDLE, WAITING_INTERACTION_READY, IDLE_TO_SPEECH
\* or SPEECH), then once the handler is done the speech frame buffer is empty,
\* the audio input queue is empty and there is no current interaction.
C8_InterruptClearsEverything ==
    (\/ ev.op = "StartInterruptionFrame" /\ Count("CancelInteraction", ev.out) > 0
     \/ /\ ev.op = "EndFrame" /\ ev.ist \notin {"none", "inactive"}
        /\ ev.st \in {"idle", "waiting_interaction_ready", "idle_to_speech", "speech"}) =>
        /\ speech_frames = <<>>
        /\ interaction.audio_input_queue = <<>>
        /\ ~interaction.live

\* C9: a StartInterruptionFrame handled while the FSM is IDLE sends no
\* CancelInteraction (the handler neither suspends on the send nor pushes
\* anything but the frame itself) and leaves the FSM state, the speech frame
\* buffer, the current interaction and the playback position as they were.
C9_InterruptionWhileIdleIsNoOp ==
    [][/\ (state = "idle" /\ nfrm' = nfrm + 1 /\ ppc'.op = "StartInterruptionFrame") =>
             ppc'.pc # "interrupt_sent"
       /\ (state = "idle" /\ nfrm' = nfrm + 1 /\ ev'.op = "StartInterruptionFrame") =>
             /\ ev'.out = <<"Forward">> /\ ~ev'.raised
             /\ UNCHANGED <<state, speech_frames, interaction, playback_time,
                            current_frame_idx>>]_vars

\* the interruption of an idle persona whose playback loop has pushed a frame
C9_Witness ==
    /\ ev.op = "StartInterruptionFrame" /\ ev.st = "idle"
    /\ playback_task = "run" /\ current_frame_idx >= 0

\* C10: wherever the receive task can run, FSM state IDLE comes with no
\* current interaction; and an InteractionResponse handled in IDLE adds
\* nothing to the speech frame buffer or to the idle cache, enters no FSM
\* state and pushes nothing.
C10_ResponseWhileIdleDiscarded ==
    [][/\ (state' = "idle" /\ rpc'.pc = "recv") => ~interaction'.live
       /\ (state = "idle" /\ nmsg' = nmsg + 1 /\ ev'.op = "InteractionResponse") =>
             /\ UNCHANGED <<state, speech_frames, num_idle>>
             /\ ev'.tr = <<>> /\ ev'.out = <<>>]_vars

\* a response that arrives after initialization has completed
C10_Witness ==
    /\ ev.op = "InteractionResponse" /\ ev.st = "idle" /\ state = "idle"
    /\ num_idle > 0

\* ---------------------------------------------------- server message claims
\* C11: an InteractionResponse whose interaction id is not the id of the
\* current interaction is discarded: handling it adds nothing to the speech
\* frame buffer or to the idle cache, does not end the wait for image frames
\* and enters no FSM state.
C11_StaleResponseDiscarded ==
    [][(/\ nmsg' = nmsg + 1 /\ ev'.op = "InteractionResponse"
        /\ ev'.id # interaction.interaction_id) =>
           /\ UNCHANGED <<speech_frames, num_idle, waiting_for_image_frames,
                          state>>
           /\ ev'.tr = <<>>]_vars

\* C12: an ErrorResponse pushes one EndFrame upstream and one downstream
\* exactly when its code is NO_BACKEND_SERVER_AVAILABLE, FAILED_CREATE_MODEL
\* or INVALID_PERSONA_ID_CONFIGURATION; for FRAME_SIZE_TOO_BIG and
\* INVALID_INTERACTION_ID it pushes nothing and leaves the FSM state and the
\* current interaction as they were.
C12_FatalErrorCodes ==
    [][(nmsg' = nmsg + 1 /\ ev'.op = "ErrorResponse") =>
          /\ ev'.a \in {"NO_BACKEND_SERVER_AVAILABLE", "FAILED_CREATE_MODEL",
                        "INVALID_PERSONA_ID_CONFIGURATION"} =>
                EndFramesPushed(ev') = <<1, 1>>
          /\ ev'.a \in {"FRAME_SIZE_TOO_BIG", "INVALID_INTERACTION_ID"} =>
                /\ ev'.out = <<>>
                /\ UNCHANGED <<state, interaction>>
          /\ EndFramesPushed(ev') # <<0, 0>> =>
                ev'.a \in {"NO_BACKEND_SERVER_AVAILABLE", "FAILED_CREATE_MODEL",
                           "INVALID_PERSONA_ID_CONFIGURATION"}]_vars

\* a fatal error that arrives while an interaction is running
C12_Witness ==
    /\ ev.op = "ErrorResponse" /\ ev.a = "FAILED_CREATE_MODEL"
    /\ EndFramesPushed(ev) = <<1, 1>>
    /\ interaction.live /\ ev.st = "waiting_interaction_ready"

\* C13: the server message handled next after a fatal ErrorResponse is not
\* processed: it changes neither the FSM state, the idle cache nor the speech
\* frame buffer.
C13_NothingAfterFatalError ==
    [][(/\ ev.op = "ErrorResponse"
        /\ ev.a \in {"NO_BACKEND_SERVER_AVAILABLE", "FAILED_CREATE_MODEL",
                     "INVALID_PERSONA_ID_CONFIGURATION"}
        /\ nmsg' = nmsg + 1) =>
           UNCHANGED <<state, num_idle, speech_frames>>]_vars

\* ------------------------------------------------------- TTS audio claims
\* the sender task is suspended in the send of a chunk received in state st
Sending(st) ==
    /\ spc.pc = "sending" /\ spc.a = "dequeued"
    /\ spc.n \in 1..Len(rx) /\ rx[spc.n] = st

\* the handler of a TTS chunk accepted in IDLE has queued it, and the
\* playback loop is running over an idle cache it can play
AcceptedInIdle ==
    /\ ev.op = "TTSAudioRawFrame" /\ ev.st = "idle" /\ ~ev.raised
    /\ playback_task = "run" /\ ~MirrorRaises(num_idle)

Queued(i) == {i.audio_input_queue[k] : k \in 1..Len(i.audio_input_queue)}

\* C15: a TTSAudioRawFrame received after initialization has completed is
\* not dropped: when its handler is done, its audio is queued for the sender.
C15_AudioAfterInitIsQueued ==
    (/\ ev.op = "TTSAudioRawFrame" /\ ~ev.raised
     /\ rx[ev.n] \notin {"invalid", "initializing"}) =>
        ev.n \in Queued(interaction) \cup Queued(pending_interaction)

\* C16 as stated: the audio of a TTSAudioRawFrame received while the FSM is
\* INITIALIZING is never sent to the server.
C16_AudioWhileInitializingNeverSent == ~Sending("initializing")

\* C16 as amended: a TTSAudioRawFrame received while the FSM is INITIALIZING
\* sends nothing at once and leaves the current interaction alone; with a
\* current interaction its audio is queued on the pending interaction,
\* without one it is dropped; and the sender takes such audio only when the
\* FSM is no longer INITIALIZING.
C16_AudioWhileInitializingIsDeferred ==
    [][/\ (ntts' = ntts + 1 /\ rx'[ntts'] = "initializing") =>
             /\ ev'.op = "TTSAudioRawFrame" /\ ev'.out = <<>> /\ ~ev'.raised
             /\ UNCHANGED <<interaction, state, spc>>
             /\ IF interaction.live
                THEN /\ pending_interaction'.live
                     /\ pending_interaction'.state = "inactive"
                     /\ pending_interaction'.audio_input_queue =
                           Append(pending_interaction.audio_input_queue, ntts')
                ELSE UNCHANGED pending_interaction
       /\ (spc.pc = "loop" /\ Sending("initializing")') =>
             state \notin {"initializing", "invalid"}]_vars

\* audio received during initialization is being sent after it
C16_Witness ==
    /\ Sending("initializing") /\ init_down = 1
    /\ state = "waiting_interaction_ready"

\* ---------------------------------------------------- pipeline frame claims
\* C17: a TTSStoppedFrame is only forwarded: it leaves the FSM state, the
\* current interaction with its end-of-input flag and its queued audio, and
\* the pending interaction as they were.
C17_TTSStoppedHasNoEffect ==
    [][(nfrm' = nfrm + 1 /\ ev'.op = "TTSStoppedFrame") =>
          /\ ev'.out = <<"Forward">> /\ ~ev'.raised
          /\ UNCHANGED <<state, interaction, pending_interaction>>]_vars

\* ------------------------------------------------------------ output claims
Images(e) == Count("IdleImage", e.out) + Count("SpeechImage", e.out)

C19_FramesForwardedOnce ==
    conn_result = "true" =>
        /\ ev.op \in {"StartFrame", "TTSStoppedFrame", "EndFrame",
                      "StartInterruptionFrame", "OtherFrame"} =>
              Count("Forward", ev.out) = 1
        /\ ev.op = "TTSAudioRawFrame" =>
              Count("Forward", ev.out) = IF tts_audio_passthrough THEN 1 ELSE 0

\* the lookahead configured for the client, idle_to_speech_seconds, in frames
extra_frames_lat == CeilDiv(IdleToSpeechTicks, TicksPerFrame)

\* C20: every InteractionInput is sent with a frame index parameter equal to
\* the frame index being played plus the configured lookahead, at the moment
\* of sending. The parameter the code sends is the start_frame_idx of the
\* current interaction: in the silence that follows SessionReady and in every
\* message of the sender task.
C20_FrameIndexSent ==
    [][(\/ spc.pc = "loop" /\ spc'.pc = "sending"
        \/ /\ rpc.pc = "start_idle" /\ ev'.op = "SessionReady"
           /\ Count("InteractionInputLast", ev'.out) = 1) =>
           interaction'.start_frame_idx = current_frame_idx' + extra_frames_lat]_vars

\* ------------------------------------------------------- idle cache claims
\* the ping-pong order 0, 1, .., N-1, N-1, .., 1, 0, 0, 1, ..
PingPong(i, N) ==
    LET k == i % (2 * N) IN IF k < N THEN k ELSE 2 * N - 1 - k

\* C21: for every idle cache size N (here of more than one frame: with one
\* frame the lookup divides by zero) and every frame index i >= 0 the idle
\* lookup returns the frame at position PingPong(i, N).
C21_MirrorIndexIsPingPong ==
    (ev.op = "get_frame_at_time" /\ num_idle > 1) =>
        /\ ~ev.raised
        /\ ev.n = PingPong(playback_time \div TicksPerFrame, num_idle)


StarvationTick ==
    /\ state = "speech" /\ previous_speech_frame # NoFrame
    /\ num_frames_missed' = num_frames_missed + 1

\* a step of the playback loop that plays the speech frame that ends a gap
PlayedAfterStarvation ==
    /\ state = "speech" /\ previous_speech_frame # NoFrame
    /\ num_frames_missed > 0 /\ num_frames_missed' = 0

C25_PtsNeverDecreases ==
    [][(/\ last_pts # NoFrame /\ init_down = 1 /\ state # "initializing"
        /\ interaction.live /\ interaction.start_frame_idx # NoFrame
        /\ last_pts' >= interaction.start_frame_idx) =>
           last_pts' >= last_pts]_vars


\* C26: whenever the playback loop takes a speech frame from the head of the
\* buffer, the index of that frame is at most the current frame index.
C26_PlayedFrameIsDue ==
    [][(state' = "speech" /\ speech_frames # <<>>
        /\ speech_frames' = Tail(speech_frames)
        /\ previous_speech_frame' = Head(speech_frames)) =>
           Head(speech_frames) <= current_frame_idx']_vars



\* the FSM goes from SPEECH or IDLE_TO_SPEECH to IDLE
LeavesSpeech == state \in {"speech", "idle_to_speech"} /\ state' = "idle"

\* C27: apart from interrupts, the FSM leaves SPEECH or IDLE_TO_SPEECH for
\* IDLE only in an iteration of the playback loop that finds the speech
\* buffer empty after a final InteractionResponse has been received.
C27_SpeechEndsOnlyAfterFinal ==
    [][(LeavesSpeech /\ ev'.op # "StartInterruptionFrame") =>
          /\ ev'.op = "tick"
          /\ final_rx /\ speech_frames = <<>>]_vars

\* the playback loop has taken the FSM from SPEECH back to IDLE
C27_Witness ==
    /\ ev.op = "tick" /\ ev.st = "speech" /\ ev.tr = <<"idle">>
    /\ state = "idle" /\ final_rx /\ speech_frames = <<>>


\* C28, in a form a finite run refutes: an utterance that has left IDLE can
\* always get back to it. The FSM leaves IDLE_TO_SPEECH only for SPEECH (or
\* by an interrupt), so while it is in IDLE_TO_SPEECH the transition frame is
\* still ahead of the playback clock; once the clock is past it no tick
\* enters SPEECH, the buffered frames are never played and the FSM stays in
\* IDLE_TO_SPEECH whatever the server sends.
C28_TransitionFrameAhead ==
    (state = "idle_to_speech" /\ playback_task = "run") =>
        current_frame_idx < get_transition_frame_idx(M(<<>>, <<>>))


\* C29: when the speech has ended or was interrupted after the speech frame
\* of index p was pushed last, the first idle image pushed after the return
\* to IDLE has index p + 1 (here in a session initialized once).
C29_IdleResumesAfterLastSpeechFrame ==
    [][(/\ ev'.op = "tick" /\ state' = "idle" /\ init_down = 1
        /\ last_img = "speech" /\ last_img' = "idle") =>
           last_pts' = last_pts + 1]_vars


\* C30: the idle cache is populated once per session: once the FSM has
\* reached IDLE for the first time no step adds a frame to the cache or
\* changes it, whatever the server sends.
C30_IdleCacheWrittenOnce ==
    [][init_down >= 1 => num_idle' = num_idle]_vars

\* --------------------------------------------------------- ordering claims
\* C31: audio chunks reach the server in TTS arrival order: the chunks the
\* audio sender has taken to send, those queued on a pending interaction
\* during initialization included, were taken in the order in which their
\* TTSAudioRawFrames were received (chunks are numbered as they arrive).
C31_AudioSentInArrivalOrder ==
    \A i, j \in 1..Len(sent) : i < j => sent[i] < sent[j]

\* a chunk queued during initialization was sent, then a later chunk
C31_Witness ==
    /\ Len(sent) = 2 /\ sent[1] = 1 /\ sent[2] = 2
    /\ rx[1] = "initializing"

\* C32: speech frames are emitted in the order their InteractionResponses
\* were received: the buffer changes only by a received frame joining its
\* end, by the playback loop taking its first frame and pushing that frame,
\* or by an interruption emptying it; no frame is skipped or reordered.
C32_SpeechFramesInOrder ==
    [][speech_frames' # speech_frames =>
          \/ /\ nmsg' = nmsg + 1
             /\ \E pts \in {interaction.frame_idx} :
                   speech_frames' = Append(speech_frames, pts)
          \/ /\ ev'.op = "tick" /\ ev'.out = <<"SpeechImage">>
             /\ speech_frames # <<>>
             /\ speech_frames' = Tail(speech_frames)
             /\ ev'.n = Head(speech_frames)
          \/ /\ ev'.op = "StartInterruptionFrame"
             /\ speech_frames' = <<>>]_vars

\* the first of two buffered frames has been played, the second waits
C32_Witness ==
    /\ ev.op = "tick" /\ ev.out = <<"SpeechImage">>
    /\ ev.n = previous_speech_frame /\ num_frames_missed = 0
    /\ Len(speech_frames) = 1 /\ speech_frames[1] = ev.n + 1

\* ------------------------------------------------------------ FSM claims
\* C33: set_state called with the state the FSM is already in is a no-op:
\* in every state the engine reaches the call changes no field, enters no
\* state and pushes nothing; and the one handler that makes such a call
\* whatever the state, SessionReady received while INITIALIZING, leaves the
\* FSM, the playback position, the transition time, the waiting flag and
\* the two interactions as they were, sends nothing and does not suspend in
\* client.start_interaction().
C33_SetSameStateIsNoOp ==
    [][/\ set_state(M(<<>>, <<>>), state) = M(<<>>, <<>>)
       /\ (nmsg' = nmsg + 1 /\ state = "initializing"
           /\ \/ ev'.op = "SessionReady"
              \/ ev'.op = "await" /\ rpc'.op = "SessionReady") =>
             /\ ev'.op = "SessionReady" /\ rpc' = rpc
             /\ ev'.out = <<>> /\ ev'.tr = <<>> /\ ~ev'.raised
             /\ UNCHANGED <<state, playback_time, transition_time,
                            waiting_for_image_frames, interaction,
                            pending_interaction, playback_task,
                            audio_output_task, speech_frames, num_idle>>]_vars

\* a second SessionReady handled while the FSM is INITIALIZING: the idle
\* interaction in progress is still there
C33_Witness ==
    /\ ev.op = "SessionReady" /\ ev.st = "initializing"
    /\ state = "initializing"
    /\ interaction.live /\ interaction.state = "all_audio_processed"
    /\ interaction.interaction_id = "id"

\* ------------------------------------------------------ audio sender claims
\* C34: no InteractionInput carrying speech audio is sent for an interaction
\* that is not running yet: when the audio sender takes a TTS chunk to send,
\* client.start_interaction() has returned the interaction's id and the
\* server's InteractionReady has made the interaction ACTIVE.
C34_AudioSentOnlyWhenActive ==
    [][(spc.pc = "loop" /\ spc'.pc = "sending" /\ spc'.a = "dequeued") =>
          /\ interaction.live
          /\ interaction.interaction_id = "id"
          /\ interaction.state = "active"]_vars

\* a step that closes the current interaction
Closed == interaction.live /\ ~interaction'.live

\* a step in which _start_interaction puts a new interaction in its place
Replaced ==
    \/ ppc.pc = "ready" /\ ppc'.pc = "start_interaction"
    \/ rpc.pc = "recv" /\ rpc'.pc \in {"start_idle", "start_pending"}

\* C35: the audio sender never resumes from sending an InteractionInput to
\* find the current interaction closed or replaced: while the task is
\* suspended in the send of a chunk it took from an ACTIVE interaction (in a
\* session initialized once) no other task closes or replaces the
\* interaction, and when it resumes it enqueues the audio for output and
\* marks the queue item done without an exception.
C35_InteractionOutlivesSend ==
    [][(/\ spc.pc = "sending" /\ spc.ist = "active"
        /\ init_down = 1 /\ state # "initializing" /\ state' # "initializing") =>
          /\ ~Closed
          /\ ~Replaced
          /\ ev'.op = "audio_sender" => ~ev'.raised]_vars

\* --------------------------------------------------------- progress claims
\* C36: once the FSM has entered IDLE_TO_SPEECH (the playback loop running,
\* and running long enough to reach the transition frame) it eventually
\* enters SPEECH or returns to IDLE, however late the loop wakes up.
C36_TransitionCompletes ==
    (/\ state = "idle_to_speech" /\ playback_task = "run"
     /\ get_transition_frame_idx(M(<<>>, <<>>)) * TicksPerFrame <= time_budget)
        ~> (state \in {"speech", "idle"})

SenderSends == spc.pc = "loop" /\ spc'.pc = "sending"

\* the idle interaction's silence, sent with is_last_input, goes out
SilenceSent == rpc.pc = "start_idle" /\ rpc'.pc = "recv"

\* C38: for each interaction at most one InteractionInput is sent with
\* is_last_input, and none after it: nothing is sent for an interaction
\* whose last input has been sent; and the sender marks an input of a speech
\* interaction as the last only after a TTSStoppedFrame was received for it.
C38_LastInputOnce ==
    [][/\ (SenderSends \/ SilenceSent) => ~interaction.last_input_sent
       /\ (SenderSends /\ interaction.is_speech
           /\ interaction'.last_input_sent) =>
             interaction.received_all_interaction_inputs]_vars

\* ----------------------------------------------------------- shutdown claim
\* C39: shutdown on EndFrame or CancelFrame completes without error in
\* whatever state the engine is, and the frame is then forwarded; no
\* CancelInteraction is sent once the client has been closed.
C39_ShutdownCompletes ==
    ev.op = "EndFrame" =>
        /\ ~ev.raised
        /\ ev.out = <<"Forward">>
        /\ client = "none"

\* C40: for every idle cache size N >= 1 that initialization can produce and
\* every playback frame index, the idle lookup succeeds: mirror_index
\* raises no exception and returns a position within the cache, 0..N-1.
C40_MirrorIndexInRange ==
    ev.op = "get_frame_at_time" =>
        /\ ~ev.raised
        /\ ev.n \in 0..(num_idle - 1)
====
